---- MODULE Spec2Model ----
(***************************************************************************)
(* Model of the servo command / safety core of the robot-arm control API:  *)
(*   src/src/hardware/gpio_config.py       (duty-cycle codec)               *)
(*   src/src/hardware/servo_controller.py  (ServoController)                *)
(*                                                                         *)
(* Every thread of the request-handling layer runs at most one public      *)
(* operation of the controller at a time.  An operation is a stack of      *)
(* frames (one per Python call); a step of a thread executes the next      *)
(* statement group of its top frame.  self._lock is a threading.Lock: it   *)
(* is NOT re-entrant, so "with self._lock" blocks while the lock is held,  *)
(* also when the holder is the calling thread itself.                      *)
(*                                                                         *)
(* Units: a speed is an integer number of tenths (5 is 0.5); a duty cycle  *)
(* is an integer number of 1/1000000 (69600 is 0.0696).  The controller is *)
(* modelled on these decimal values, computed exactly.  The codec is also  *)
(* modelled on Python floats, bit for bit, for what is said of its values. *)
(***************************************************************************)
EXTENDS Integers, Sequences, FiniteSets, TLC

\* ------------------------------------------------------------------ bounds

\* how many public operations the request layer issues in one run
MaxCalls == 3

\* the request threads that may call the controller concurrently
Threads == {1, 2}

\* the codec is run on every tenth of a speed up to this many tenths
MaxGridSpeed == 12

\* and on the duty cycles this many millionths around its landmarks
MaxDutyOffset == 3

\* ------------------------------------------------------- program constants

\* speeds are tenths: SpeedScale stands for 1.0
SpeedScale == 10

\* gpio_config.CENTER_DUTY_CYCLE = 0.0696, in 1/1000000
CENTER_DUTY_CYCLE == 69600

\* gpio_config.MIN_DUTY_CYCLE = 0.05
MIN_DUTY_CYCLE == 50000

\* gpio_config.MAX_DUTY_CYCLE = 0.10
MAX_DUTY_CYCLE == 100000

\* ------------------------------------------------------------------ inputs

\* identifiers a configuration file may declare (the spec's scenario)
ServoIds == {"base", "gripper"}

\* identifiers a caller may pass: the configured ones and an unknown one
IdInputs == ServoIds \cup {"nonexistent"}

\* speeds a caller may pass: -1.0, 0.0, 0.5 and the out-of-range 1.5
SpeedInputs == {-10, 0, 5, 15}

\* the set_servo_speed calls a caller makes: every speed on base, full
\* speed in reverse on gripper, half speed on the unknown id
SetSpeedInputs ==
  ({"base"} \X SpeedInputs)
    \cup {<<"gripper", -SpeedScale>>}
    \cup {<<id, 5>> : id \in IdInputs \ ServoIds}

\* the directions of a start request, as the speed each stands for:
\* "forward" is full speed ahead, "backward" full speed in reverse
Directions == {SpeedScale, -SpeedScale}

\* the servo sections a configuration file may hold, in file order
Configs == {<< >>, <<"base">>, <<"gripper">>, <<"base", "gripper">>}

\* a configuration file that loads: its servo sections in file order, the
\* ids whose section ServoConfig(**servo_data) rejects, and whether the
\* safety, api and logging sections validate
ConfigFile(ids, bad, rest_ok) ==
  [kind |-> "yaml", servos |-> ids, bad |-> bad, rest_ok |-> rest_ok]

\* the files reload_config() may find: one per configuration, one with an
\* empty gripper section, one with an ill-formed safety section, an empty
\* file and no file at all
Files ==
  {ConfigFile(c, {}, TRUE) : c \in Configs}
    \cup {ConfigFile(<<"base", "gripper">>, {"gripper"}, TRUE),
          ConfigFile(<<"base">>, {}, FALSE),
          [kind |-> "empty", servos |-> << >>, bad |-> {}, rest_ok |-> TRUE],
          [kind |-> "missing", servos |-> << >>, bad |-> {}, rest_ok |-> TRUE]}

NoThread == 0

Range(seq) == {seq[i] : i \in 1..Len(seq)}

EmptyMap == [x \in {} |-> x]

\* the keys of a dict after d[k] = v: a key already there keeps its place, a
\* new one goes last
DictSet(keys, k) == IF k \in Range(keys) THEN keys ELSE Append(keys, k)

\* ------------------------------------------------------------------- state

VARIABLES
  config,                 \* ConfigManager._servos: the configured ids, in order
  raw_config,             \* ConfigManager._config: the file last loaded
  key_order,              \* the keys of self._servos and self._servo_states,
                          \* in insertion order
  servos,                 \* self._servos: id -> PWM output handle
  servo_states,           \* self._servo_states: id -> ServoState
  emergency_stop_active,  \* self._emergency_stop_active
  lock,                   \* self._lock: the thread holding it, or NoThread
  stack,                  \* per thread: the frames of the running operation
  result,                 \* per thread: what its last public operation returned
  calls,                  \* public operations issued so far
  codec                   \* a run of the codec on its own: inputs and results

vars == <<config, raw_config, key_order, servos, servo_states,
          emergency_stop_active, lock, stack, result, calls, codec>>

shared == <<servos, servo_states, emergency_stop_active>>

\* ------------------------------------------------------------------- codec

\* the codec's results: a duty cycle, or ValueError raised
Duty(d) == [raised |-> FALSE, duty |-> d]

ValueError == [raised |-> TRUE, duty |-> 0]

\* a speed_to_duty_cycle that scales reverse speeds by the forward span
speed_to_duty_cycle_one_span(speed) ==
  IF ~(-SpeedScale <= speed /\ speed <= SpeedScale) THEN ValueError
  ELSE Duty(CENTER_DUTY_CYCLE
              + (speed * (MAX_DUTY_CYCLE - CENTER_DUTY_CYCLE)) \div SpeedScale)

\* a speed_to_duty_cycle without the range check
speed_to_duty_cycle_unchecked(speed) ==
  IF speed = 0 THEN Duty(CENTER_DUTY_CYCLE)
  ELSE IF speed > 0
       THEN Duty(CENTER_DUTY_CYCLE
                   + (speed * (MAX_DUTY_CYCLE - CENTER_DUTY_CYCLE)) \div SpeedScale)
       ELSE Duty(CENTER_DUTY_CYCLE
                   + (speed * (CENTER_DUTY_CYCLE - MIN_DUTY_CYCLE)) \div SpeedScale)

\* gpio_config.speed_to_duty_cycle, on the decimal values
speed_to_duty_cycle(speed) ==
  IF ~(-SpeedScale <= speed /\ speed <= SpeedScale) THEN ValueError
  ELSE IF speed = 0 THEN Duty(CENTER_DUTY_CYCLE)
  ELSE IF speed > 0
       THEN Duty(CENTER_DUTY_CYCLE
                   + (speed * (MAX_DUTY_CYCLE - CENTER_DUTY_CYCLE)) \div SpeedScale)
       ELSE Duty(CENTER_DUTY_CYCLE
                   + (speed * (CENTER_DUTY_CYCLE - MIN_DUTY_CYCLE)) \div SpeedScale)

\* -------------------------------------------------- Python float arithmetic
\*
\* gpio_config computes on Python floats: IEEE-754 binary64, every operation
\* rounded to the nearest value with a 53-bit significand, ties to even.  A
\* float is [neg, m, e] and stands for (-1)^neg * m * 2^e, where the
\* significand m is a natural number of exactly MantissaBits bits (or zero)
\* held as a little-endian sequence of limbs below LimbBase.  The codec's
\* values lie between 1e-17 and 2, far from overflow and from subnormals,
\* so the exponent is not bounded.

\* a limb holds 15 bits, so that a product of two limbs is a machine integer
LimbBits == 15

LimbBase == 2^LimbBits

\* the significand of a binary64
MantissaBits == 53

\* a natural number below LimbBase^2 as limbs
IntToBig(n) ==
  IF n = 0 THEN << >>
  ELSE IF n < LimbBase THEN <<n>>
  ELSE <<n % LimbBase, n \div LimbBase>>

\* limbs without leading zero limbs
RECURSIVE BigNorm(_)
BigNorm(a) ==
  IF a = << >> THEN a
  ELSE IF a[Len(a)] = 0 THEN BigNorm(SubSeq(a, 1, Len(a) - 1))
  ELSE a

Limb(a, i) == IF i <= Len(a) THEN a[i] ELSE 0

Rest(a) == IF a = << >> THEN a ELSE Tail(a)

RECURSIVE BigAddC(_, _, _)
BigAddC(a, b, c) ==
  IF a = << >> /\ b = << >>
  THEN IF c = 0 THEN << >> ELSE <<c>>
  ELSE LET x == Limb(a, 1) + Limb(b, 1) + c
       IN  <<x % LimbBase>> \o BigAddC(Rest(a), Rest(b), x \div LimbBase)

BigAdd(a, b) == BigAddC(a, b, 0)

RECURSIVE BigSubB(_, _, _)
BigSubB(a, b, borrow) ==
  IF a = << >> THEN << >>
  ELSE LET x == a[1] - Limb(b, 1) - borrow
       IN  <<x % LimbBase>> \o BigSubB(Tail(a), Rest(b), IF x < 0 THEN 1 ELSE 0)

\* a - b, for a >= b
BigSub(a, b) == BigNorm(BigSubB(a, b, 0))

RECURSIVE BigLessAt(_, _, _)
BigLessAt(a, b, i) ==
  IF i = 0 THEN FALSE
  ELSE IF a[i] # b[i] THEN a[i] < b[i]
  ELSE BigLessAt(a, b, i - 1)

BigLess(a, b) ==
  IF Len(a) # Len(b) THEN Len(a) < Len(b) ELSE BigLessAt(a, b, Len(a))

RECURSIVE BigMulSmall(_, _, _)
BigMulSmall(a, d, c) ==
  IF a = << >>
  THEN IF c = 0 THEN << >> ELSE <<c>>
  ELSE LET x == a[1] * d + c
       IN  <<x % LimbBase>> \o BigMulSmall(Tail(a), d, x \div LimbBase)

RECURSIVE BigMul(_, _)
BigMul(a, b) ==
  IF a = << >> \/ b = << >> THEN << >>
  ELSE LET high == BigMul(a, Tail(b))
       IN  BigAdd(BigNorm(BigMulSmall(a, b[1], 0)),
                  IF high = << >> THEN high ELSE <<0>> \o high)

RECURSIVE SmallBitLen(_)
SmallBitLen(x) == IF x = 0 THEN 0 ELSE 1 + SmallBitLen(x \div 2)

BigBitLen(a) ==
  IF a = << >> THEN 0 ELSE LimbBits * (Len(a) - 1) + SmallBitLen(a[Len(a)])

\* a * 2^k
BigShl(a, k) ==
  IF a = << >> THEN a
  ELSE [i \in 1..(k \div LimbBits) |-> 0] \o BigMulSmall(a, 2^(k % LimbBits), 0)

\* a \div 2^k
BigShr(a, k) ==
  LET q == k \div LimbBits
      p == 2^(k % LimbBits)
      x == IF q >= Len(a) THEN << >> ELSE SubSeq(a, q + 1, Len(a))
  IN  BigNorm([i \in 1..Len(x) |->
                 x[i] \div p
                   + (IF i < Len(x) THEN (x[i + 1] % p) * (LimbBase \div p) ELSE 0)])

\* the largest digit d below LimbBase with d * b <= r, found bit by bit
RECURSIVE BigDigit(_, _, _, _)
BigDigit(r, b, bit, d) ==
  IF bit < 0 THEN d
  ELSE LET d2 == d + 2^bit
       IN  IF BigLess(r, BigNorm(BigMulSmall(b, d2, 0)))
           THEN BigDigit(r, b, bit - 1, d)
           ELSE BigDigit(r, b, bit - 1, d2)

\* long division, one limb of a at a time from the highest
RECURSIVE BigDivStep(_, _, _, _, _)
BigDivStep(a, b, i, q, r) ==
  IF i = 0 THEN [quot |-> BigNorm(q), rem |-> r]
  ELSE LET r2 == BigNorm(<<a[i]>> \o r)
           d  == BigDigit(r2, b, LimbBits - 1, 0)
       IN  BigDivStep(a, b, i - 1, <<d>> \o q, BigSub(r2, BigNorm(BigMulSmall(b, d, 0))))

\* quotient and remainder of a by b # 0
BigDivMod(a, b) == BigDivStep(a, b, Len(a), << >>, << >>)

FloatZero == [neg |-> FALSE, m |-> << >>, e |-> 0]

\* the binary64 nearest to (-1)^neg * M * 2^E, ties to even
FloatRound(neg, M, E) ==
  IF M = << >> THEN FloatZero
  ELSE LET L == BigBitLen(M) IN
       IF L <= MantissaBits
       THEN [neg |-> neg, m |-> BigShl(M, MantissaBits - L),
             e |-> E - (MantissaBits - L)]
       ELSE LET d    == L - MantissaBits
                q    == BigShr(M, d)
                rem  == BigSub(M, BigShl(q, d))
                half == BigShl(<<1>>, d - 1)
                up   == BigLess(half, rem) \/ (rem = half /\ q[1] % 2 = 1)
                q2   == IF up THEN BigAdd(q, <<1>>) ELSE q
            IN  IF BigBitLen(q2) > MantissaBits
                THEN [neg |-> neg, m |-> BigShr(q2, 1), e |-> E + d + 1]
                ELSE [neg |-> neg, m |-> q2, e |-> E + d]

FloatNeg(x) == IF x.m = << >> THEN x ELSE [x EXCEPT !.neg = ~x.neg]

\* x * y
FloatMul(x, y) == FloatRound(x.neg # y.neg, BigMul(x.m, y.m), x.e + y.e)

\* x + y
FloatAdd(x, y) ==
  IF x.m = << >> THEN y
  ELSE IF y.m = << >> THEN x
  ELSE LET E == IF x.e < y.e THEN x.e ELSE y.e
           X == BigShl(x.m, x.e - E)
           Y == BigShl(y.m, y.e - E)
       IN  IF x.neg = y.neg THEN FloatRound(x.neg, BigAdd(X, Y), E)
           ELSE IF BigLess(X, Y) THEN FloatRound(y.neg, BigSub(Y, X), E)
           ELSE FloatRound(x.neg, BigSub(X, Y), E)

\* x - y
FloatSub(x, y) == FloatAdd(x, FloatNeg(y))

\* x / y for y # 0: 64 quotient bits and a sticky bit, then rounded
FloatDiv(x, y) ==
  IF x.m = << >> THEN FloatZero
  ELSE LET k  == BigBitLen(y.m) - BigBitLen(x.m) + 64
           dm == BigDivMod(BigShl(x.m, k), y.m)
           M  == BigAdd(BigShl(dm.quot, 1), IF dm.rem = << >> THEN << >> ELSE <<1>>)
       IN  FloatRound(x.neg # y.neg, M, x.e - y.e - k - 1)

\* |x| < |y|
FloatMagLess(x, y) ==
  IF y.m = << >> THEN FALSE
  ELSE IF x.m = << >> THEN TRUE
  ELSE IF x.e # y.e THEN x.e < y.e
  ELSE BigLess(x.m, y.m)

\* x < y
FloatLess(x, y) ==
  IF x.neg # y.neg THEN x.neg
  ELSE IF x.neg THEN FloatMagLess(y, x)
  ELSE FloatMagLess(x, y)

\* x <= y
FloatLeq(x, y) == ~FloatLess(y, x)

\* the float of an integer below LimbBase^2 in magnitude
FloatOfInt(n) ==
  IF n < 0 THEN FloatRound(TRUE, IntToBig(-n), 0) ELSE FloatRound(FALSE, IntToBig(n), 0)

\* the float nearest to num / den: what a decimal literal or a parsed
\* decimal number evaluates to
FloatOfRatio(num, den) == FloatDiv(FloatOfInt(num), FloatOfInt(den))

\* ---------------------------------------------------- the codec on floats

\* duty cycles are written in the source with six decimals at most
DutyScale == 1000000

\* the float a decimal speed of s tenths evaluates to
FloatOfSpeed(s) == FloatOfRatio(s, SpeedScale)

\* the float a decimal duty cycle of d millionths evaluates to
FloatOfDuty(d) == FloatOfRatio(d, DutyScale)

\* gpio_config.CENTER_DUTY_CYCLE, MIN_DUTY_CYCLE, MAX_DUTY_CYCLE as floats
CENTER_DUTY_CYCLE_float == FloatOfDuty(CENTER_DUTY_CYCLE)

MIN_DUTY_CYCLE_float == FloatOfDuty(MIN_DUTY_CYCLE)

MAX_DUTY_CYCLE_float == FloatOfDuty(MAX_DUTY_CYCLE)

\* the codec's results on floats: a value, or ValueError raised
CodecValue(v) == [raised |-> FALSE, value |-> v]

CodecError == [raised |-> TRUE, value |-> FloatZero]

\* a speed_to_duty_cycle that scales reverse speeds by the forward span
speed_to_duty_cycle_float_one_span(speed) ==
  IF ~(FloatLeq(FloatOfInt(-1), speed) /\ FloatLeq(speed, FloatOfInt(1)))
  THEN CodecError
  ELSE CodecValue(FloatAdd(CENTER_DUTY_CYCLE_float,
                           FloatMul(speed, FloatSub(MAX_DUTY_CYCLE_float,
                                                    CENTER_DUTY_CYCLE_float))))

\* gpio_config.speed_to_duty_cycle, as Python computes it
speed_to_duty_cycle_float(speed) ==
  IF ~(FloatLeq(FloatOfInt(-1), speed) /\ FloatLeq(speed, FloatOfInt(1)))
  THEN CodecError
  ELSE IF speed = FloatZero THEN CodecValue(CENTER_DUTY_CYCLE_float)
  ELSE IF FloatLess(FloatZero, speed)
       THEN CodecValue(FloatAdd(CENTER_DUTY_CYCLE_float,
                                FloatMul(speed, FloatSub(MAX_DUTY_CYCLE_float,
                                                         CENTER_DUTY_CYCLE_float))))
       ELSE CodecValue(FloatAdd(CENTER_DUTY_CYCLE_float,
                                FloatMul(speed, FloatSub(CENTER_DUTY_CYCLE_float,
                                                         MIN_DUTY_CYCLE_float))))

\* a duty_cycle_to_speed that divides by the forward span on both sides
duty_cycle_to_speed_one_span(duty_cycle) ==
  IF ~(FloatLeq(MIN_DUTY_CYCLE_float, duty_cycle)
         /\ FloatLeq(duty_cycle, MAX_DUTY_CYCLE_float))
  THEN CodecError
  ELSE CodecValue(FloatDiv(FloatSub(duty_cycle, CENTER_DUTY_CYCLE_float),
                           FloatSub(MAX_DUTY_CYCLE_float, CENTER_DUTY_CYCLE_float)))

\* a duty_cycle_to_speed without the range check
duty_cycle_to_speed_unchecked(duty_cycle) ==
  IF duty_cycle = CENTER_DUTY_CYCLE_float THEN CodecValue(FloatZero)
  ELSE IF FloatLess(CENTER_DUTY_CYCLE_float, duty_cycle)
       THEN CodecValue(FloatDiv(FloatSub(duty_cycle, CENTER_DUTY_CYCLE_float),
                                FloatSub(MAX_DUTY_CYCLE_float, CENTER_DUTY_CYCLE_float)))
       ELSE CodecValue(FloatDiv(FloatSub(duty_cycle, CENTER_DUTY_CYCLE_float),
                                FloatSub(CENTER_DUTY_CYCLE_float, MIN_DUTY_CYCLE_float)))

\* gpio_config.duty_cycle_to_speed, as Python computes it
duty_cycle_to_speed(duty_cycle) ==
  IF ~(FloatLeq(MIN_DUTY_CYCLE_float, duty_cycle)
         /\ FloatLeq(duty_cycle, MAX_DUTY_CYCLE_float))
  THEN CodecError
  ELSE IF duty_cycle = CENTER_DUTY_CYCLE_float THEN CodecValue(FloatZero)
  ELSE IF FloatLess(CENTER_DUTY_CYCLE_float, duty_cycle)
       THEN CodecValue(FloatDiv(FloatSub(duty_cycle, CENTER_DUTY_CYCLE_float),
                                FloatSub(MAX_DUTY_CYCLE_float, CENTER_DUTY_CYCLE_float)))
       ELSE CodecValue(FloatDiv(FloatSub(duty_cycle, CENTER_DUTY_CYCLE_float),
                                FloatSub(CENTER_DUTY_CYCLE_float, MIN_DUTY_CYCLE_float)))

\* a run of the codec: the decimal inputs (a speed x and the next speed y of
\* the grid, in tenths, or one duty cycle x in millionths), their floats sx
\* and sy, and what the codec returned for them
CodecState(pc, x, y) ==
  [pc |-> pc, x |-> x, y |-> y, sx |-> FloatZero, sy |-> FloatZero,
   dx |-> CodecValue(FloatZero), dy |-> CodecValue(FloatZero),
   back |-> CodecValue(FloatZero)]

\* the codec is not being exercised
NoCodec == CodecState("idle", 0, 0)

\* speeds given to the codec: every tenth from -1.2 to 1.2
SpeedGrid == (-MaxGridSpeed)..MaxGridSpeed

\* duty cycles given to duty_cycle_to_speed: the millionths around the
\* minimum, the centre, the maximum and the middle of either span
DutyGrid ==
  {b + j : b \in {MIN_DUTY_CYCLE, (MIN_DUTY_CYCLE + CENTER_DUTY_CYCLE) \div 2,
                  CENTER_DUTY_CYCLE, (CENTER_DUTY_CYCLE + MAX_DUTY_CYCLE) \div 2,
                  MAX_DUTY_CYCLE},
           j \in -MaxDutyOffset..MaxDutyOffset}

\* what the codec is run on: a speed and its successor in the grid, or one
\* duty cycle
CodecInputs ==
  {CodecState("speed", x, x + 1) : x \in SpeedGrid \ {MaxGridSpeed}}
    \cup {CodecState("duty", d, d) : d \in DutyGrid}

\* ------------------------------------------------------------ data classes

\* ServoState(): the dataclass defaults
ServoState == [speed |-> 0, is_running |-> FALSE]

\* an is_running that is set by every successful write
IsRunningAlways(speed) == TRUE

\* set_servo_speed's is_running = (speed != 0.0)
IsRunning(speed) == speed # 0

\* a device constructed at the minimum duty cycle
PWMOutputDeviceAtMin == [value |-> MIN_DUTY_CYCLE, closed |-> FALSE]

\* PWMOutputDevice(pin, frequency, initial_value=CENTER_DUTY_CYCLE)
PWMOutputDevice == [value |-> CENTER_DUTY_CYCLE, closed |-> FALSE]

\* ------------------------------------------------------------------ frames

Frame(proc, pc, id, speed) ==
  [proc |-> proc, pc |-> pc, id |-> id, speed |-> speed, held |-> FALSE,
   todo |-> << >>, n |-> 0, success |-> TRUE, rv |-> "-", rvs |-> {},
   acc |-> {}, duty |-> 0, seen |-> ServoState, detached |-> FALSE,
   file |-> ConfigFile(<< >>, {}, TRUE)]

Top(t) == stack[t][1]

Idle(t) == stack[t] = << >>

InProc(t, proc) == ~Idle(t) /\ Top(t).proc = proc /\ Top(t).pc # "lock"

\* the keys of dict m in insertion order, given the order before the step:
\* the keys that stayed keep their places, the new ones follow (a step adds
\* at most one, by d[k] = v), and clear() leaves none
KeysOf(m, before) ==
  LET kept == SelectSeq(before, LAMBDA k : k \in DOMAIN m)
      new  == DOMAIN m \ Range(before)
  IN  IF new = {} THEN kept ELSE Append(kept, CHOOSE k \in new : TRUE)

\* the key a dict iterator yields next. The iterator keeps a position in the
\* dict, not the keys it saw when the loop began (frame field n is the size
\* then, todo the entries still to come): in a dict emptied and filled again
\* to that size it goes on at its position in the new order
IterKey(keys, f) == keys[f.n - Len(f.todo) + 1]

Put(m, k, v) == [x \in DOMAIN m \cup {k} |-> IF x = k THEN v ELSE m[x]]

\* what a thread got from its last public operation: the value returned
\* ("True", "False", "None", "dict" with the status entries, or "raised"),
\* and the exception the operation logged or let escape, if any
Result(f, val, payload, exc) ==
  [op |-> f.proc, id |-> f.id, speed |-> f.speed, ret |-> val,
   status |-> payload, exc |-> exc]

NoResult == [op |-> "none", id |-> "-", speed |-> 0, ret |-> "-", status |-> {},
             exc |-> "-"]

\* a return that leaves the lock as it is
ReturnKeepsLock(t, st, lk, val, payload, exc) ==
  LET top  == st[1]
      rest == Tail(st)
  IN  IF rest = << >>
      THEN [st |-> << >>, lk |-> lk, res |-> Result(top, val, payload, exc)]
      ELSE [st |-> <<[rest[1] EXCEPT !.rv = val, !.rvs = payload]>> \o Tail(rest),
            lk |-> lk, res |-> result[t]]

\* a return statement of the top frame: leaving "with self._lock" releases the
\* lock, the value goes to the calling frame or, from a public operation, to
\* the caller
Return(t, st, lk, val, payload, exc) ==
  LET top  == st[1]
      rest == Tail(st)
      lk2  == IF top.held THEN NoThread ELSE lk
  IN  IF rest = << >>
      THEN [st |-> << >>, lk |-> lk2, res |-> Result(top, val, payload, exc)]
      ELSE [st |-> <<[rest[1] EXCEPT !.rv = val, !.rvs = payload]>> \o Tail(rest),
            lk |-> lk2, res |-> result[t]]

\* the handlers, were set_servo_speed to have none
HasHandlerExceptSetSpeed(proc) ==
  proc \in {"initialize_servos", "stop_all_servos", "emergency_stop"}

\* the procedures whose body is a try ... except Exception: return False
HasHandler(proc) ==
  proc \in {"initialize_servos", "set_servo_speed", "stop_all_servos",
            "emergency_stop"}

\* exception exc raised in the top frame: it unwinds (releasing the lock of
\* every "with" it leaves) to the nearest handler, which logs it and returns
\* False; with no handler on the stack it reaches the caller of the public
\* operation
RECURSIVE Raise(_, _, _, _)
Raise(t, st, lk, exc) ==
  LET top == st[1]
      lk2 == IF top.held THEN NoThread ELSE lk
  IN  IF HasHandler(top.proc) THEN Return(t, st, lk, "False", {}, exc)
      ELSE IF Tail(st) = << >>
           THEN [st |-> << >>, lk |-> lk2, res |-> Result(top, "raised", {}, exc)]
           ELSE Raise(t, Tail(st), lk2, exc)

\* the top frame moves to pc, with its fields changed to f
Goto(t, f) == [st |-> <<f>> \o Tail(stack[t]), lk |-> lock, res |-> result[t]]

\* the top frame calls callee and will resume at pc
CallThen(t, f, callee, pc) ==
  [st |-> <<callee, [f EXCEPT !.pc = pc]>> \o Tail(stack[t]),
   lk |-> lock, res |-> result[t]]

\* the top frame calls callee and will resume at "ret"
Call(t, f, callee) == CallThen(t, f, callee, "ret")

\* the effect of a step of thread t on its stack, the lock and its result
Becomes(t, out) ==
  /\ stack' = [stack EXCEPT ![t] = out.st]
  /\ lock' = out.lk
  /\ result' = [result EXCEPT ![t] = out.res]

\* the local variable "state" of get_servo_status refers to a ServoState
\* object, not to the registry's entry: when the entries of ids leave the
\* state map (replaced by a new ServoState() or cleared), a reader that has
\* bound one of them keeps the old object, with the is_running it has then
DetachReaders(st, ids) ==
  [u \in Threads |->
     IF /\ st[u] # << >>
        /\ st[u][1].proc = "get_servo_status" /\ st[u][1].pc = "running"
        /\ ~st[u][1].detached
        /\ st[u][1].id \in ids \cap DOMAIN servo_states
     THEN <<[st[u][1] EXCEPT
               !.detached = TRUE,
               !.seen = [speed |-> st[u][1].seen.speed,
                         is_running |-> servo_states[st[u][1].id].is_running]]>>
            \o Tail(st[u])
     ELSE st[u]]

\* a step of thread t that takes the entries of ids out of the state map
BecomesDetaching(t, out, ids) ==
  /\ stack' = DetachReaders([stack EXCEPT ![t] = out.st], ids)
  /\ lock' = out.lk
  /\ result' = [result EXCEPT ![t] = out.res]

\* the loop variable "servo" of _cleanup_servos refers to the device the
\* iterator yielded, not to the registry's entry: when the entries of ids
\* leave the device map (cleared, or replaced by a new device), a cleanup
\* that is about to close one of them closes the old device
DetachClosers(st, ids) ==
  [u \in Threads |->
     IF /\ st[u] # << >>
        /\ st[u][1].proc = "_cleanup_servos" /\ st[u][1].pc = "close"
        /\ st[u][1].id \in ids \cap DOMAIN servos
     THEN <<[st[u][1] EXCEPT !.detached = TRUE]>> \o Tail(st[u])
     ELSE st[u]]

\* a step of thread t that takes the entries of ids out of the device map
BecomesDropping(t, out, ids) ==
  /\ stack' = DetachClosers([stack EXCEPT ![t] = out.st], ids)
  /\ lock' = out.lk
  /\ result' = [result EXCEPT ![t] = out.res]

\* a lookup test that answers yes for every id
InServoStatesAlways(id) == TRUE

\* get_servo_status's "servo_id not in self._servo_states", negated
InServoStates(id) == id \in DOMAIN servo_states

\* set_servo_speed's "servo_id not in self._servos", negated
InServos(id) == id \in DOMAIN servos

\* ----------------------------------------------------------------- initial

Init ==
  /\ config \in Configs
  /\ raw_config = ConfigFile(config, {}, TRUE)
  /\ key_order = [servos |-> << >>, servo_states |-> << >>]
  /\ servos = EmptyMap
  /\ servo_states = EmptyMap
  /\ emergency_stop_active = FALSE
  /\ lock = NoThread
  /\ stack = [t \in Threads |-> << >>]
  /\ result = [t \in Threads |-> NoResult]
  /\ calls = 0
  /\ codec = NoCodec

\* ----------------------------------------------------------------- actions

\* the request layer calls a public operation on an idle thread
Invoke(t) ==
  /\ Idle(t)
  /\ calls < MaxCalls
  /\ calls' = calls + 1
  /\ \E f \in
         {Frame("initialize_servos", "lock", "-", 0),
          Frame("stop_all_servos", "lock", "-", 0),
          Frame("emergency_stop", "lock", "-", 0),
          Frame("clear_emergency_stop", "lock", "-", 0),
          Frame("get_all_servo_status", "start", "-", 0),
          Frame("is_emergency_stop_active", "start", "-", 0),
          Frame("cleanup", "start", "-", 0)}
         \cup {[Frame("reload_config", "start", "-", 0) EXCEPT !.file = file] :
                  file \in Files}
         \cup {Frame("set_servo_speed", "lock", c[1], c[2]) : c \in SetSpeedInputs}
         \cup {Frame("stop_servo", "start", id, 0) : id \in IdInputs}
         \cup {Frame("get_servo_status", "start", id, 0) : id \in IdInputs}
         \cup {Frame("start_servo", "start", "base", d) : d \in Directions} :
       stack' = [stack EXCEPT ![t] = <<f>>]
  /\ result' = [result EXCEPT ![t] = NoResult]
  /\ UNCHANGED <<codec, config, raw_config, key_order, servos, servo_states, emergency_stop_active, lock>>

\* the guard of "with self._lock": threading.Lock.acquire() blocks while the
\* lock is held, whoever holds it
CanAcquire(t) == lock = NoThread

\* "with self._lock:" in the top frame
Acquire(t) ==
  /\ ~Idle(t)
  /\ Top(t).pc = "lock"
  /\ CanAcquire(t)
  /\ lock' = t
  /\ stack' = [stack EXCEPT ![t] = <<[Top(t) EXCEPT !.pc = "start", !.held = TRUE]>>
                                     \o Tail(stack[t])]
  /\ UNCHANGED <<codec, config, raw_config, key_order, servos, servo_states, emergency_stop_active, result, calls>>

\* ServoController.set_servo_speed, after "with self._lock"
set_servo_speed(t) ==
  /\ InProc(t, "set_servo_speed")
  /\ LET f == Top(t) IN
       CASE f.pc = "start" ->
              \* the interlock, the lookup and the codec
              /\ UNCHANGED shared
              /\ IF emergency_stop_active
                 THEN Becomes(t, Return(t, stack[t], lock, "False", {}, "-"))
                 ELSE IF ~InServos(f.id)
                 THEN Becomes(t, Return(t, stack[t], lock, "False", {}, "-"))
                 ELSE LET d == speed_to_duty_cycle(f.speed)
                      IN  IF d.raised
                          THEN Becomes(t, Raise(t, stack[t], lock, "ValueError"))
                          ELSE Becomes(t, Goto(t, [f EXCEPT !.pc = "write",
                                                            !.duty = d.duty]))
         [] f.pc = "write" ->
              \* self._servos[servo_id].value = duty_cycle
              \E fault \in BOOLEAN :
                IF f.id \notin DOMAIN servos
                THEN UNCHANGED shared /\ Becomes(t, Raise(t, stack[t], lock, "KeyError"))
                ELSE IF servos[f.id].closed
                THEN UNCHANGED shared /\ Becomes(t, Raise(t, stack[t], lock, "DeviceClosed"))
                ELSE IF fault
                THEN UNCHANGED shared /\ Becomes(t, Raise(t, stack[t], lock, "HardwareFault"))
                ELSE /\ servos' = [servos EXCEPT ![f.id].value = f.duty]
                     /\ UNCHANGED <<servo_states, emergency_stop_active>>
                     /\ Becomes(t, Goto(t, [f EXCEPT !.pc = "speed"]))
         [] f.pc = "speed" ->
              \* self._servo_states[servo_id].speed = speed
              IF f.id \notin DOMAIN servo_states
              THEN UNCHANGED shared /\ Becomes(t, Raise(t, stack[t], lock, "KeyError"))
              ELSE /\ servo_states' = [servo_states EXCEPT ![f.id].speed = f.speed]
                   /\ UNCHANGED <<servos, emergency_stop_active>>
                   /\ Becomes(t, Goto(t, [f EXCEPT !.pc = "running"]))
         [] f.pc = "running" ->
              \* self._servo_states[servo_id].is_running = (speed != 0.0); return True
              IF f.id \notin DOMAIN servo_states
              THEN UNCHANGED shared /\ Becomes(t, Raise(t, stack[t], lock, "KeyError"))
              ELSE /\ servo_states' = [servo_states EXCEPT
                                         ![f.id].is_running = IsRunning(f.speed)]
                   /\ UNCHANGED <<servos, emergency_stop_active>>
                   /\ Becomes(t, Return(t, stack[t], lock, "True", {}, "-"))
  /\ UNCHANGED <<codec, config, raw_config, key_order, calls>>

\* a stop_servo that passes half speed ahead to set_servo_speed
stop_servo_half_speed(t) ==
  /\ InProc(t, "stop_servo")
  /\ LET f == Top(t) IN
       CASE f.pc = "start" ->
              Becomes(t, Call(t, f, Frame("set_servo_speed", "lock", f.id, 5)))
         [] f.pc = "ret" ->
              Becomes(t, Return(t, stack[t], lock, f.rv, {}, "-"))
  /\ UNCHANGED <<codec, config, raw_config, key_order, shared, calls>>

\* ServoController.stop_servo: return self.set_servo_speed(servo_id, 0.0)
stop_servo(t) ==
  /\ InProc(t, "stop_servo")
  /\ LET f == Top(t) IN
       CASE f.pc = "start" ->
              Becomes(t, Call(t, f, Frame("set_servo_speed", "lock", f.id, 0)))
         [] f.pc = "ret" ->
              Becomes(t, Return(t, stack[t], lock, f.rv, {}, "-"))
  /\ UNCHANGED <<codec, config, raw_config, key_order, shared, calls>>

\* ServoController.stop_all_servos, after "with self._lock"
stop_all_servos(t) ==
  /\ InProc(t, "stop_all_servos")
  /\ LET f == Top(t) IN
       CASE f.pc = "start" ->
              \* success = True; for servo_id in self._servos:
              Becomes(t, Goto(t, [f EXCEPT !.pc = "loop", !.success = TRUE,
                                           !.todo = key_order.servos,
                                           !.n = Cardinality(DOMAIN servos)]))
         [] f.pc = "loop" ->
              IF Cardinality(DOMAIN servos) # f.n
              THEN \* dictionary changed size during iteration
                   Becomes(t, Raise(t, stack[t], lock, "RuntimeError"))
              ELSE IF f.todo = << >>
              THEN Becomes(t, Return(t, stack[t], lock,
                                     IF f.success THEN "True" ELSE "False", {}, "-"))
              ELSE Becomes(t, Call(t, [f EXCEPT !.todo = Tail(f.todo)],
                                   Frame("stop_servo", "start",
                                         IterKey(key_order.servos, f), 0)))
         [] f.pc = "ret" ->
              \* if not self.stop_servo(servo_id): success = False
              Becomes(t, Goto(t, [f EXCEPT !.pc = "loop",
                                           !.success = f.success /\ f.rv = "True"]))
  /\ UNCHANGED <<codec, config, raw_config, key_order, shared, calls>>

\* ServoController.emergency_stop, after "with self._lock"
emergency_stop(t) ==
  /\ InProc(t, "emergency_stop")
  /\ LET f == Top(t) IN
       CASE f.pc = "start" ->
              \* self._emergency_stop_active = True; self.stop_all_servos()
              /\ emergency_stop_active' = TRUE
              /\ UNCHANGED <<servos, servo_states>>
              /\ Becomes(t, Call(t, f, Frame("stop_all_servos", "lock", "-", 0)))
         [] f.pc = "ret" ->
              /\ UNCHANGED shared
              /\ Becomes(t, Return(t, stack[t], lock, f.rv, {}, "-"))
  /\ UNCHANGED <<codec, config, raw_config, key_order, calls>>

\* ServoController.clear_emergency_stop, after "with self._lock"
clear_emergency_stop(t) ==
  /\ InProc(t, "clear_emergency_stop")
  /\ emergency_stop_active' = FALSE
  /\ Becomes(t, Return(t, stack[t], lock, "True", {}, "-"))
  /\ UNCHANGED <<codec, config, raw_config, key_order, servos, servo_states, calls>>

\* ServoController._cleanup_servos (takes no lock itself)
cleanup_servos(t) ==
  /\ InProc(t, "_cleanup_servos")
  /\ LET f == Top(t) IN
       CASE f.pc = "start" ->
              \* for servo in self._servos.values():
              /\ UNCHANGED shared
              /\ Becomes(t, Goto(t, [f EXCEPT !.pc = "loop",
                                              !.todo = key_order.servos,
                                              !.n = Cardinality(DOMAIN servos)]))
         [] f.pc = "loop" ->
              IF Cardinality(DOMAIN servos) # f.n
              THEN UNCHANGED shared
                   /\ Becomes(t, Raise(t, stack[t], lock, "RuntimeError"))
              ELSE IF f.todo = << >>
              THEN UNCHANGED shared /\ Becomes(t, Goto(t, [f EXCEPT !.pc = "clear"]))
              ELSE \* the iterator yields the next device, bound to servo
                   /\ UNCHANGED shared
                   /\ Becomes(t, Goto(t, [f EXCEPT !.pc = "close",
                                                   !.id = IterKey(key_order.servos, f),
                                                   !.detached = FALSE,
                                                   !.todo = Tail(f.todo)]))
         [] f.pc = "close" ->
              \* servo.close(), of the device bound above
              \E fault \in BOOLEAN :
                IF fault
                THEN UNCHANGED shared
                     /\ Becomes(t, Raise(t, stack[t], lock, "HardwareFault"))
                ELSE /\ servos' = IF f.detached
                                  THEN servos
                                  ELSE [servos EXCEPT ![f.id].closed = TRUE]
                     /\ UNCHANGED <<servo_states, emergency_stop_active>>
                     /\ Becomes(t, Goto(t, [f EXCEPT !.pc = "loop", !.id = "-",
                                                     !.detached = FALSE]))
         [] f.pc = "clear" ->
              \* self._servos.clear()
              /\ servos' = EmptyMap
              /\ UNCHANGED <<servo_states, emergency_stop_active>>
              /\ BecomesDropping(t, Goto(t, [f EXCEPT !.pc = "clear_states"]),
                                 DOMAIN servos)
         [] f.pc = "clear_states" ->
              \* self._servo_states.clear()
              /\ servo_states' = EmptyMap
              /\ UNCHANGED <<servos, emergency_stop_active>>
              /\ BecomesDetaching(t, Return(t, stack[t], lock, "None", {}, "-"),
                                  DOMAIN servo_states)
  /\ key_order' = [servos |-> KeysOf(servos', key_order.servos),
                   servo_states |-> KeysOf(servo_states', key_order.servo_states)]
  /\ UNCHANGED <<codec, config, raw_config, calls>>

\* ServoController.initialize_servos, after "with self._lock"
initialize_servos(t) ==
  /\ InProc(t, "initialize_servos")
  /\ LET f == Top(t) IN
       CASE f.pc = "start" ->
              \* self._cleanup_servos()
              /\ UNCHANGED shared
              /\ Becomes(t, Call(t, f, Frame("_cleanup_servos", "start", "-", 0)))
         [] f.pc = "ret" ->
              \* servo_configs = self.config.get_all_servos()
              /\ UNCHANGED shared
              /\ IF config = << >>
                 THEN Becomes(t, Return(t, stack[t], lock, "False", {}, "-"))
                 ELSE Becomes(t, Goto(t, [f EXCEPT !.pc = "loop", !.todo = config,
                                                   !.acc = Range(config)]))
         [] f.pc = "loop" ->
              IF f.todo = << >>
              THEN UNCHANGED shared
                   /\ Becomes(t, Return(t, stack[t], lock, "True", {}, "-"))
              ELSE \* servo = PWMOutputDevice(...); self._servos[servo_id] = servo
                   \E fault \in BOOLEAN :
                     IF fault
                     THEN \* except Exception: return False
                          UNCHANGED shared
                          /\ Becomes(t, Return(t, stack[t], lock, "False", {},
                                               "HardwareFault"))
                     ELSE /\ servos' = Put(servos, Head(f.todo), PWMOutputDevice)
                          /\ UNCHANGED <<servo_states, emergency_stop_active>>
                          /\ BecomesDropping(t, Goto(t, [f EXCEPT !.pc = "state"]),
                                             {Head(f.todo)})
         [] f.pc = "state" ->
              \* self._servo_states[servo_id] = ServoState()
              /\ servo_states' = Put(servo_states, Head(f.todo), ServoState)
              /\ UNCHANGED <<servos, emergency_stop_active>>
              /\ BecomesDetaching(t, Goto(t, [f EXCEPT !.pc = "loop",
                                                       !.todo = Tail(f.todo)]),
                                  {Head(f.todo)})
  /\ key_order' = [servos |-> KeysOf(servos', key_order.servos),
                   servo_states |-> KeysOf(servo_states', key_order.servo_states)]
  /\ UNCHANGED <<codec, config, raw_config, calls>>

\* ServoController.cleanup: stop_all_servos(), then _cleanup_servos()
cleanup(t) ==
  /\ InProc(t, "cleanup")
  /\ LET f == Top(t) IN
       CASE f.pc = "start" ->
              Becomes(t, Call(t, f, Frame("stop_all_servos", "lock", "-", 0)))
         [] f.pc = "ret" ->
              Becomes(t, CallThen(t, f, Frame("_cleanup_servos", "start", "-", 0),
                                  "done"))
         [] f.pc = "done" ->
              Becomes(t, Return(t, stack[t], lock, "None", {}, "-"))
  /\ UNCHANGED <<codec, config, raw_config, key_order, shared, calls>>

\* one entry of a status mapping
Status(id, speed, is_running) ==
  [id |-> id, present |-> TRUE, speed |-> speed, is_running |-> is_running]

\* an entry whose status is None
NoStatus(id) == [id |-> id, present |-> FALSE, speed |-> 0, is_running |-> FALSE]

\* ServoController.get_servo_status (takes no lock)
get_servo_status(t) ==
  /\ InProc(t, "get_servo_status")
  /\ LET f == Top(t) IN
       CASE f.pc = "start" ->
              \* if servo_id not in self._servo_states: return None
              IF ~InServoStates(f.id)
              THEN Becomes(t, Return(t, stack[t], lock, "None", {}, "-"))
              ELSE Becomes(t, Goto(t, [f EXCEPT !.pc = "state"]))
         [] f.pc = "state" ->
              \* state = self._servo_states[servo_id]; "speed": state.speed
              IF f.id \notin DOMAIN servo_states
              THEN Becomes(t, Raise(t, stack[t], lock, "KeyError"))
              ELSE Becomes(t, Goto(t, [f EXCEPT !.pc = "running",
                                                !.detached = FALSE,
                                                !.seen = servo_states[f.id]]))
         [] f.pc = "running" ->
              \* "is_running": state.is_running, of the object bound above
              LET r == IF f.detached
                       THEN f.seen.is_running
                       ELSE servo_states[f.id].is_running
              IN  Becomes(t, Return(t, stack[t], lock, "dict",
                                    {Status(f.id, f.seen.speed, r)}, "-"))
  /\ UNCHANGED <<codec, config, raw_config, key_order, shared, calls>>

\* ServoController.get_all_servo_status (takes no lock)
get_all_servo_status(t) ==
  /\ InProc(t, "get_all_servo_status")
  /\ LET f == Top(t) IN
       CASE f.pc = "start" ->
              \* for servo_id in self._servo_states
              Becomes(t, Goto(t, [f EXCEPT !.pc = "loop", !.acc = {},
                                           !.todo = key_order.servo_states,
                                           !.n = Cardinality(DOMAIN servo_states)]))
         [] f.pc = "loop" ->
              IF Cardinality(DOMAIN servo_states) # f.n
              THEN Becomes(t, Raise(t, stack[t], lock, "RuntimeError"))
              ELSE IF f.todo = << >>
              THEN Becomes(t, Return(t, stack[t], lock, "dict", f.acc, "-"))
              ELSE Becomes(t, Call(t, [f EXCEPT !.todo = Tail(f.todo),
                                                !.id = IterKey(key_order.servo_states, f)],
                                   Frame("get_servo_status", "start",
                                         IterKey(key_order.servo_states, f), 0)))
         [] f.pc = "ret" ->
              \* servo_id: <the status>, in place of an entry already under that key
              Becomes(t, Goto(t, [f EXCEPT !.pc = "loop", !.id = "-",
                                           !.acc = {e \in f.acc : e.id # f.id} \cup
                                              (IF f.rv = "None" THEN {NoStatus(f.id)}
                                                                ELSE f.rvs)]))
  /\ UNCHANGED <<codec, config, raw_config, key_order, shared, calls>>

\* an is_emergency_stop_active that resets the flag it reports
is_emergency_stop_active_resets(t) ==
  /\ InProc(t, "is_emergency_stop_active")
  /\ Becomes(t, Return(t, stack[t], lock,
                       IF emergency_stop_active THEN "True" ELSE "False", {}, "-"))
  /\ emergency_stop_active' = FALSE
  /\ UNCHANGED <<codec, config, raw_config, key_order, servos, servo_states, calls>>

\* ServoController.is_emergency_stop_active (takes no lock)
is_emergency_stop_active(t) ==
  /\ InProc(t, "is_emergency_stop_active")
  /\ Becomes(t, Return(t, stack[t], lock,
                       IF emergency_stop_active THEN "True" ELSE "False", {}, "-"))
  /\ UNCHANGED <<codec, config, raw_config, key_order, shared, calls>>

\* servo_controller.start_servo(servo_id, direction), as the start route and
\* the hardware test call it: ServoController defines no start_servo, so the
\* attribute lookup raises AttributeError in the caller
start_servo(t) ==
  /\ InProc(t, "start_servo")
  /\ Becomes(t, Raise(t, stack[t], lock, "AttributeError"))
  /\ UNCHANGED <<codec, config, raw_config, key_order, shared, calls>>

\* ConfigManager.reload_config, reached as controller.config.reload_config():
\* _load_config() then _validate_and_parse_config() (takes no lock; an
\* exception is logged and raised again)
reload_config(t) ==
  /\ InProc(t, "reload_config")
  /\ LET f == Top(t) IN
       CASE f.pc = "start" ->
              \* open and parse the file; self._config = raw_config
              CASE f.file.kind = "missing" ->
                     /\ UNCHANGED <<config, raw_config>>
                     /\ Becomes(t, Raise(t, stack[t], lock, "FileNotFoundError"))
                [] f.file.kind = "empty" ->
                     /\ UNCHANGED <<config, raw_config>>
                     /\ Becomes(t, Raise(t, stack[t], lock, "ValueError"))
                [] OTHER ->
                     /\ raw_config' = f.file
                     /\ UNCHANGED config
                     /\ Becomes(t, Goto(t, [f EXCEPT !.pc = "parse"]))
         [] f.pc = "parse" ->
              \* self._servos = {}
              /\ config' = << >>
              /\ UNCHANGED raw_config
              /\ Becomes(t, Goto(t, [f EXCEPT !.pc = "items"]))
         [] f.pc = "items" ->
              \* for servo_id, servo_data in
              \* self._config.get('hardware', {}).get('servos', {}).items():
              /\ UNCHANGED <<config, raw_config>>
              /\ Becomes(t, Goto(t, [f EXCEPT !.pc = "loop",
                                              !.todo = raw_config.servos,
                                              !.acc = raw_config.bad]))
         [] f.pc = "loop" ->
              IF f.todo # << >>
              THEN \* self._servos[servo_id] = ServoConfig(**servo_data)
                   IF Head(f.todo) \in f.acc
                   THEN /\ UNCHANGED <<config, raw_config>>
                        /\ Becomes(t, Raise(t, stack[t], lock, "TypeError"))
                   ELSE /\ config' = DictSet(config, Head(f.todo))
                        /\ UNCHANGED raw_config
                        /\ Becomes(t, Goto(t, [f EXCEPT !.todo = Tail(f.todo)]))
              ELSE \* SafetyConfig(**self._config.get('safety', {})), ...
                   /\ UNCHANGED <<config, raw_config>>
                   /\ IF raw_config.rest_ok
                      THEN Becomes(t, Return(t, stack[t], lock, "None", {}, "-"))
                      ELSE Becomes(t, Raise(t, stack[t], lock, "ValidationError"))
  /\ UNCHANGED <<codec, key_order, shared, calls>>

\* ------------------------------------------------------------ specification

\* a step of thread t inside the operation it is running
Step(t) ==
  \/ Acquire(t)
  \/ initialize_servos(t)
  \/ cleanup_servos(t)
  \/ set_servo_speed(t)
  \/ stop_servo(t)
  \/ stop_all_servos(t)
  \/ emergency_stop(t)
  \/ clear_emergency_stop(t)
  \/ get_servo_status(t)
  \/ get_all_servo_status(t)
  \/ is_emergency_stop_active(t)
  \/ cleanup(t)
  \/ start_servo(t)
  \/ reload_config(t)

Next == \E t \in Threads : Invoke(t) \/ Step(t)

Spec == Init /\ [][Next]_vars

\* threads are scheduled fairly: a thread that can take a step of the
\* operation it is in eventually takes one
FairSpec == Spec /\ \A t \in Threads : WF_vars(Step(t))

\* ------------------------------------------------- the codec on its own

\* the controller as constructed, the codec about to be run on some input
CodecInit ==
  /\ config = << >>
  /\ raw_config = ConfigFile(<< >>, {}, TRUE)
  /\ key_order = [servos |-> << >>, servo_states |-> << >>]
  /\ servos = EmptyMap
  /\ servo_states = EmptyMap
  /\ emergency_stop_active = FALSE
  /\ lock = NoThread
  /\ stack = [t \in Threads |-> << >>]
  /\ result = [t \in Threads |-> NoResult]
  /\ calls = 0
  /\ codec \in CodecInputs

controller == <<config, raw_config, key_order, servos, servo_states,
                emergency_stop_active, lock, stack, result, calls>>

\* duty_cycle = speed_to_duty_cycle(speed), for both speeds
Encode ==
  /\ codec.pc = "speed"
  /\ LET sx == FloatOfSpeed(codec.x)
         sy == FloatOfSpeed(codec.y)
     IN  codec' = [codec EXCEPT !.pc = "encoded", !.sx = sx, !.sy = sy,
                                !.dx = speed_to_duty_cycle_float(sx),
                                !.dy = speed_to_duty_cycle_float(sy)]
  /\ UNCHANGED controller

\* duty_cycle_to_speed(duty_cycle) of the duty cycle just computed
Decode ==
  /\ codec.pc = "encoded"
  /\ ~codec.dx.raised
  /\ codec' = [codec EXCEPT !.pc = "decoded",
                            !.back = duty_cycle_to_speed(codec.dx.value)]
  /\ UNCHANGED controller

\* duty_cycle_to_speed(duty_cycle) of a given duty cycle
DecodeDuty ==
  /\ codec.pc = "duty"
  /\ LET d == FloatOfDuty(codec.x)
     IN  codec' = [codec EXCEPT !.pc = "decoded_duty", !.dx = CodecValue(d),
                                !.back = duty_cycle_to_speed(d)]
  /\ UNCHANGED controller

CodecNext == Encode \/ Decode \/ DecodeDuty

CodecSpec == CodecInit /\ [][CodecNext]_vars

\* ------------------------------------------------------- claim vocabulary

\* the public operation thread t is in: the bottom frame of its stack
Outer(t) == stack[t][Len(stack[t])]

Running(t, proc) == ~Idle(t) /\ Outer(t).proc = proc

\* thread t's public call of proc has returned val
Returned(t, proc, val) ==
  Idle(t) /\ result[t].op = proc /\ result[t].ret = val

\* thread t waits at "with self._lock" for a lock that is held
Blocked(t) == ~Idle(t) /\ Top(t).pc = "lock" /\ lock # NoThread

\* no thread is executing: each is between operations or parked on the lock
AtRest == \A t \in Threads : Idle(t) \/ Blocked(t)

\* what status_all() would report: no servo running, every speed 0.0
AllStopped ==
  \A id \in DOMAIN servo_states :
    servo_states[id].speed = 0 /\ ~servo_states[id].is_running

SomeRunning == \E id \in DOMAIN servo_states : servo_states[id].is_running

\* this step is a step of thread t
StepOf(t) == stack'[t] # stack[t]

\* this step is the return of t's public call of proc
Returns(t, proc) == Running(t, proc) /\ Len(stack[t]) = 1 /\ Idle(t)'

\* the floating-point tolerance of a round trip: 1e-9
ToleranceInverse == 10^9

\* float x is within 1e-9 of the decimal num / den (den > 0): with x equal
\* to +-m * 2^e, |x - num/den| <= 1e-9 is compared after scaling both sides
\* by den * 10^9 * 2^max(-e, 0)
FloatNear(x, num, den) ==
  LET up   == IF x.e > 0 THEN x.e ELSE 0
      down == IF x.e < 0 THEN -x.e ELSE 0
      T    == IntToBig(ToleranceInverse)
      A    == BigShl(BigMul(BigMul(x.m, IntToBig(den)), T), up)
      B    == BigShl(BigMul(IntToBig(IF num < 0 THEN -num ELSE num), T), down)
      R    == BigShl(IntToBig(den), down)
      same == x.m = << >> \/ num = 0 \/ (x.neg <=> num < 0)
      diff == IF ~same THEN BigAdd(A, B)
              ELSE IF BigLess(A, B) THEN BigSub(B, A) ELSE BigSub(A, B)
  IN  ~BigLess(R, diff)

\* float x is above zero, below zero
FloatPositive(x) == x.m # << >> /\ ~x.neg

FloatNegative(x) == x.m # << >> /\ x.neg

\* the codec accepts exactly the speeds from -1.0 to 1.0
ValidSpeed(s) == -SpeedScale <= s /\ s <= SpeedScale

\* ------------------------------------------------------------------ claims

\* C1: once emergency_stop() has returned, status_all() reports
\* is_running == false and speed == 0.0 for every registered servo, from any
\* prior state of an initialized controller.  Stated with the return it
\* promises: a call of emergency_stop() made while a servo is running leads
\* to the call having returned with every servo stopped.
C1_EmergencyStopStopsAll ==
  \A t \in Threads :
    [](  (Running(t, "emergency_stop") /\ SomeRunning)
      => <>(Idle(t) /\ result[t].op = "emergency_stop" /\ AllStopped))

\* C2: a call of emergency_stop() or stop_all() terminates: whenever such a
\* call is in progress, some thread inside an operation can take a step
\* (no state is reached where the call is stuck for good).
C2_StopCallsTerminate ==
  (\E t \in Threads : Running(t, "emergency_stop") \/ Running(t, "stop_all_servos"))
    => \E t \in Threads : ~Idle(t) /\ ~Blocked(t)

\* C3: whenever no operation is executing, the emergency-stop flag being set
\* implies every registered servo has speed 0.0 and is_running false.
C3_FlagImpliesStopped == (AtRest /\ emergency_stop_active) => AllStopped

\* C4: while the flag is set, a call set_speed(id, s) with s # 0 returns
\* false (and changes nothing).
C4_InterlockRejects ==
  \A t \in Threads :
    [](  (Running(t, "set_servo_speed") /\ Outer(t).speed # 0 /\ emergency_stop_active)
      => <>Returned(t, "set_servo_speed", "False"))

\* C5: with set_speed() and emergency_stop() called concurrently from two
\* threads, both calls complete in some order and, once emergency_stop() has
\* returned, no servo is running.
C5_EmergencyStopOrdersSetSpeed ==
  \A t, u \in Threads :
    [](  (t # u /\ Running(t, "emergency_stop") /\ Running(u, "set_servo_speed"))
      => <>(Idle(t) /\ Idle(u) /\ result[t].op = "emergency_stop" /\ ~SomeRunning))

\* C6: after emergency_stop(), set_speed fails until clear_emergency_stop()
\* is called; a clear_emergency_stop() called while the flag is set returns
\* and leaves the flag clear, so that set_speed succeeds again.
C6_ClearReenables ==
  \A t \in Threads :
    [](  (Running(t, "clear_emergency_stop") /\ emergency_stop_active)
      => <>(Returned(t, "clear_emergency_stop", "True") /\ ~emergency_stop_active))

\* C7: set_speed(id, s) with the flag clear, id registered, s in [-1, 1] and
\* no fault of the hardware write returns true, writes speed_to_duty(s) to
\* that servo's output and leaves status(id) = {speed: s, is_running: s # 0};
\* no step of the call changes another servo's state or output, or the flag.
\*   - a call that returns false met the interlock, an unregistered id, an
\*     out-of-range speed or a faulting write;
\*   - the write step puts speed_to_duty(s) on the servo's output;
\*   - on return of true the state of id is {s, s # 0};
\*   - every step of the call leaves the other servos and the flag alone.
C7_SetSpeedContract ==
  [][\A t \in Threads :
       (StepOf(t) /\ Running(t, "set_servo_speed") /\ Len(stack[t]) = 1) =>
         LET f == Top(t) IN
           /\ (Idle(t)' /\ result'[t].ret # "True") =>
                 /\ result'[t].ret = "False"
                 /\ \/ emergency_stop_active
                    \/ f.id \notin DOMAIN servos
                    \/ f.id \notin DOMAIN servo_states
                    \/ ~(-SpeedScale <= f.speed /\ f.speed <= SpeedScale)
                    \/ result'[t].exc \in {"HardwareFault", "DeviceClosed"}
           /\ (f.pc = "write" /\ ~Idle(t)') =>
                 /\ f.speed > 0 =>
                      servos'[f.id].value * SpeedScale =
                        CENTER_DUTY_CYCLE * SpeedScale
                          + f.speed * (MAX_DUTY_CYCLE - CENTER_DUTY_CYCLE)
                 /\ f.speed < 0 =>
                      servos'[f.id].value * SpeedScale =
                        CENTER_DUTY_CYCLE * SpeedScale
                          + f.speed * (CENTER_DUTY_CYCLE - MIN_DUTY_CYCLE)
                 /\ f.speed = 0 => servos'[f.id].value = CENTER_DUTY_CYCLE
           /\ (Idle(t)' /\ result'[t].ret = "True") =>
                 /\ f.id \in DOMAIN servo_states'
                 /\ servo_states'[f.id] = [speed |-> f.speed, is_running |-> f.speed # 0]
           /\ emergency_stop_active' = emergency_stop_active
           /\ DOMAIN servos' = DOMAIN servos
           /\ DOMAIN servo_states' = DOMAIN servo_states
           /\ \A j \in DOMAIN servos : j # f.id => servos'[j] = servos[j]
           /\ \A j \in DOMAIN servo_states : j # f.id => servo_states'[j] = servo_states[j]
    ]_vars

\* C7 witness: set_speed("base", 0.5) has returned true, base reports
\* {0.5, running} with its output at 0.0848, gripper is untouched
C7_Witness ==
  \E t \in Threads :
    /\ Returned(t, "set_servo_speed", "True")
    /\ result[t].id = "base" /\ result[t].speed = 5
    /\ DOMAIN servo_states = {"base", "gripper"}
    /\ DOMAIN servos = {"base", "gripper"}
    /\ servo_states["base"] = [speed |-> 5, is_running |-> TRUE]
    /\ servos["base"].value = 84800
    /\ servo_states["gripper"] = ServoState
    /\ servos["gripper"] = PWMOutputDevice
    /\ ~emergency_stop_active

\* C8: set_speed(id, s) with an id that is not registered returns false
\* without raising and leaves the registry, the runtime states, the outputs
\* and the flag unchanged; status(id) for such an id returns None.
C8_UnknownIdRejected ==
  [][\A t \in Threads :
       (StepOf(t) /\ ~Idle(t) /\ Len(stack[t]) = 1 /\ Top(t).pc = "start") =>
         /\ (Top(t).proc = "set_servo_speed" /\ Top(t).id \notin DOMAIN servos) =>
               /\ Idle(t)'
               /\ result'[t].ret = "False"
               /\ UNCHANGED shared
         /\ (Top(t).proc = "get_servo_status" /\ Top(t).id \notin DOMAIN servo_states) =>
               /\ Idle(t)'
               /\ result'[t].ret = "None"
               /\ UNCHANGED shared
    ]_vars

\* C8 witness: on an initialized controller set_speed("nonexistent", s) has
\* returned false and status("nonexistent") has returned None
C8_Witness ==
  \E t, u \in Threads :
    /\ Returned(t, "set_servo_speed", "False")
    /\ result[t].id = "nonexistent" /\ result[t].exc = "-"
    /\ Returned(u, "get_servo_status", "None")
    /\ result[u].id = "nonexistent"
    /\ DOMAIN servos = {"base", "gripper"}
    /\ DOMAIN servo_states = {"base", "gripper"}
    /\ ~emergency_stop_active

\* C9: whenever no operation is executing, every registered servo has
\* speed == 0.0 exactly when is_running == false.
C9_SpeedZeroIffStopped ==
  AtRest =>
    \A id \in DOMAIN servo_states :
      (servo_states[id].speed = 0) <=> (servo_states[id].is_running = FALSE)

\* C9 witness: at rest after set_speed("gripper", -1.0) returned true:
\* gripper runs at -1.0 and base is stopped at 0.0
C9_Witness ==
  /\ AtRest
  /\ DOMAIN servo_states = {"base", "gripper"}
  /\ servo_states["gripper"] = [speed |-> -10, is_running |-> TRUE]
  /\ servo_states["base"] = [speed |-> 0, is_running |-> FALSE]
  /\ \E t \in Threads : Returned(t, "set_servo_speed", "True") /\ result[t].id = "gripper"

\* C10: initialize() is all-or-nothing: when it returns false the registry
\* (outputs and runtime states) is empty, when it returns true the registry
\* holds exactly the configured identifiers (those the call read from
\* get_all_servos()).
C10_InitializeAllOrNothing ==
  [][\A t \in Threads :
       Returns(t, "initialize_servos") =>
         /\ result'[t].ret = "False" =>
              servos' = EmptyMap /\ servo_states' = EmptyMap
         /\ result'[t].ret = "True" =>
              /\ DOMAIN servos' = Top(t).acc
              /\ DOMAIN servo_states' = Top(t).acc
    ]_vars

\* C11: stop_all() attempts stop(id) for every registered identifier and
\* returns true exactly when every per-servo stop succeeded.  Stated with the
\* return it promises: a call of stop_all() on a registry that holds servos
\* leads to the call having returned true or false.
C11_StopAllAggregates ==
  \A t \in Threads :
    [](  (Running(t, "stop_all_servos") /\ DOMAIN servos # {})
      => <>(Idle(t) /\ result[t].op = "stop_all_servos"
                    /\ result[t].ret \in {"True", "False"}))

\* C12: emergency_stop() attempts to stop every servo whatever the flag's
\* value and is idempotent: an emergency_stop() called while the flag is
\* already set returns, with the flag still set and every servo stopped.
C12_EmergencyStopIdempotent ==
  \A t \in Threads :
    [](  (Running(t, "emergency_stop") /\ Len(stack[t]) = 1 /\ Top(t).pc = "lock"
                                       /\ emergency_stop_active)
      => <>(Idle(t) /\ result[t].op = "emergency_stop"
                    /\ emergency_stop_active /\ AllStopped))

\* C13: clear_emergency_stop() always returns true and leaves the flag
\* false, whatever the flag was when it was called, and changes nothing
\* else:
\*   - every call of it comes to return true, with the flag false then;
\*   - no step of the call changes the registry, a servo's speed or
\*     is_running, or a hardware output, and only its return writes the flag.
C13_ClearFrame ==
  /\ \A t \in Threads :
       [](  Running(t, "clear_emergency_stop")
         => <>(Returned(t, "clear_emergency_stop", "True") /\ ~emergency_stop_active))
  /\ [][\A t \in Threads :
          (StepOf(t) /\ Running(t, "clear_emergency_stop")) =>
            /\ servos' = servos
            /\ servo_states' = servo_states
            /\ config' = config
            /\ Idle(t)' => (result'[t].ret = "True" /\ ~emergency_stop_active')
            /\ ~Idle(t)' => emergency_stop_active' = emergency_stop_active
       ]_vars

\* C14: no public operation of the controller lets a hardware fault
\* (construction, write, close) or the codec's ValueError escape to its
\* caller.
C14_NoFaultEscapes ==
  \A t \in Threads :
    (result[t].ret = "raised" /\ result[t].op # "reload_config") =>
      result[t].exc \notin {"HardwareFault", "DeviceClosed", "ValueError"}

\* C15: a status read never observes a torn update: every {speed,
\* is_running} pair returned by status(id) or status_all() satisfies
\* is_running == (speed != 0).
C15_NoTornRead ==
  \A t \in Threads :
    (Idle(t) /\ result[t].op \in {"get_servo_status", "get_all_servo_status"}
             /\ result[t].ret = "dict") =>
      \A e \in result[t].status :
        e.present => (e.is_running <=> (e.speed # 0))

\* C16: cleanup() stops all servos and releases every registry resource: a
\* call of cleanup() on a registry that holds servos leads to the call
\* having returned with the registry and the runtime-state map empty.
C16_CleanupReleasesAll ==
  \A t \in Threads :
    [](  (Running(t, "cleanup") /\ DOMAIN servos # {})
      => <>(Idle(t) /\ result[t].op = "cleanup"
                    /\ servos = EmptyMap /\ servo_states = EmptyMap))

\* C17: round trip of the codec, as stated: for every speed s of the grid in
\* [-1.0, 1.0], duty_to_speed(speed_to_duty(s)) == s.
C17_RoundTripExact ==
  codec.pc = "decoded" =>
    (~codec.back.raised /\ codec.back.value = codec.sx)

\* C17, amended: for every speed s of the grid in [-1.0, 1.0],
\* speed_to_duty(s) does not fail and lies in [min, max], the domain of
\* duty_to_speed, and duty_to_speed(speed_to_duty(s)) does not fail and is
\* within 1e-9 of s.
C17_RoundTripWithinTolerance ==
  /\ (codec.pc \in {"encoded", "decoded"} /\ ValidSpeed(codec.x)) =>
       /\ ~codec.dx.raised
       /\ FloatLeq(MIN_DUTY_CYCLE_float, codec.dx.value)
       /\ FloatLeq(codec.dx.value, MAX_DUTY_CYCLE_float)
  /\ codec.pc = "decoded" =>
       /\ ValidSpeed(codec.x)
       /\ ~codec.back.raised
       /\ FloatNear(codec.back.value, codec.x, SpeedScale)

\* C17 witness: the round trip of -0.9 has been computed; it did not fail
\* and gave a float that is not -0.9
C17_Witness ==
  /\ codec.pc = "decoded"
  /\ codec.x = -9
  /\ codec.sx = FloatOfSpeed(-9)
  /\ ~codec.back.raised
  /\ codec.back.value # codec.sx

\* C18: speed_to_duty maps 0 to center, 1 to max and -1 to min exactly; for
\* a valid s > 0 it is center + s*(max-center) and for s < 0 it is
\* center + s*(center-min), both as the float expression and, within 1e-9,
\* as the exact decimal value; it is non-decreasing from one speed of the
\* grid to the next and its result is within [min, max].
C18_SpeedToDuty ==
  codec.pc \in {"encoded", "decoded"} =>
    /\ ValidSpeed(codec.x) =>
         /\ ~codec.dx.raised
         /\ codec.x = 0 => codec.dx.value = CENTER_DUTY_CYCLE_float
         /\ codec.x = SpeedScale => codec.dx.value = MAX_DUTY_CYCLE_float
         /\ codec.x = -SpeedScale => codec.dx.value = MIN_DUTY_CYCLE_float
         /\ codec.x > 0 =>
              codec.dx.value =
                FloatAdd(CENTER_DUTY_CYCLE_float,
                         FloatMul(codec.sx, FloatSub(MAX_DUTY_CYCLE_float,
                                                     CENTER_DUTY_CYCLE_float)))
         /\ codec.x < 0 =>
              codec.dx.value =
                FloatAdd(CENTER_DUTY_CYCLE_float,
                         FloatMul(codec.sx, FloatSub(CENTER_DUTY_CYCLE_float,
                                                     MIN_DUTY_CYCLE_float)))
         /\ FloatNear(codec.dx.value, speed_to_duty_cycle(codec.x).duty, DutyScale)
         /\ FloatLeq(MIN_DUTY_CYCLE_float, codec.dx.value)
         /\ FloatLeq(codec.dx.value, MAX_DUTY_CYCLE_float)
    /\ (ValidSpeed(codec.x) /\ ValidSpeed(codec.y)) =>
         /\ ~codec.dy.raised
         /\ FloatLeq(codec.dx.value, codec.dy.value)

\* C18 witness: the codec has been run on 0.9 and 1.0: 1.0 gave the maximum
\* duty cycle and 0.9 a smaller one, 0.09696 within 1e-9
C18_Witness ==
  /\ codec.pc = "encoded"
  /\ codec.x = 9 /\ codec.y = 10
  /\ ~codec.dx.raised /\ ~codec.dy.raised
  /\ codec.dy.value = MAX_DUTY_CYCLE_float
  /\ FloatLess(codec.dx.value, codec.dy.value)
  /\ FloatNear(codec.dx.value, 96960, DutyScale)

\* C19: every duty cycle on a servo output lies within [MIN_DUTY_CYCLE,
\* MAX_DUTY_CYCLE]; a set_speed(id, s) with s outside [-1.0, 1.0] changes no
\* runtime state and no output at any of its steps and, when it returns,
\* returns false; when it got as far as the codec (flag clear, id
\* registered) it is the codec's ValueError that ends it, at that step.
C19_DutyInRange ==
  [][/\ \A id \in DOMAIN servos' :
          MIN_DUTY_CYCLE <= servos'[id].value /\ servos'[id].value <= MAX_DUTY_CYCLE
     /\ \A t \in Threads :
          (StepOf(t) /\ Running(t, "set_servo_speed") /\ Len(stack[t]) = 1
                     /\ ~ValidSpeed(Top(t).speed)) =>
            /\ UNCHANGED shared
            /\ Idle(t)' => result'[t].ret = "False"
            /\ (Top(t).pc = "start" /\ ~emergency_stop_active /\ InServos(Top(t).id)) =>
                 (Idle(t)' /\ result'[t].exc = "ValueError")
    ]_vars

\* C19 witness: on an initialized controller set_speed("base", 1.5) has
\* returned false after the codec's ValueError; base is still stopped with
\* its output at the centre
C19_Witness ==
  \E t \in Threads :
    /\ Returned(t, "set_servo_speed", "False")
    /\ result[t].id = "base" /\ result[t].speed = 15
    /\ result[t].exc = "ValueError"
    /\ "base" \in DOMAIN servos /\ "base" \in DOMAIN servo_states
    /\ servos["base"] = PWMOutputDevice
    /\ servo_states["base"] = ServoState
    /\ ~emergency_stop_active

\* C20: duty_to_speed fails with ValueError exactly for the duty cycles
\* outside [min, max]; it returns exactly 0.0 when the duty cycle is the
\* centre; for every duty cycle inside [min, max] it returns a speed in
\* [-1.0, 1.0] that is positive above the centre and negative below it.
C20_DutyToSpeed ==
  /\ codec.pc = "decoded_duty" =>
       /\ codec.back.raised <=>
            (codec.x < MIN_DUTY_CYCLE \/ codec.x > MAX_DUTY_CYCLE)
       /\ ~codec.back.raised =>
            /\ FloatLeq(FloatOfInt(-1), codec.back.value)
            /\ FloatLeq(codec.back.value, FloatOfInt(1))
            /\ codec.x = CENTER_DUTY_CYCLE <=> codec.back.value = FloatZero
            /\ codec.x > CENTER_DUTY_CYCLE <=> FloatPositive(codec.back.value)
            /\ codec.x < CENTER_DUTY_CYCLE <=> FloatNegative(codec.back.value)
  /\ codec.pc = "decoded" =>
       /\ ~codec.back.raised
       /\ FloatLeq(FloatOfInt(-1), codec.back.value)
       /\ FloatLeq(codec.back.value, FloatOfInt(1))
       /\ codec.dx.value = CENTER_DUTY_CYCLE_float <=> codec.back.value = FloatZero
       /\ FloatLess(CENTER_DUTY_CYCLE_float, codec.dx.value)
            <=> FloatPositive(codec.back.value)
       /\ FloatLess(codec.dx.value, CENTER_DUTY_CYCLE_float)
            <=> FloatNegative(codec.back.value)

\* C20 witness: duty_to_speed has been run on 0.069601, one millionth above
\* the centre: it returned a positive speed below 0.001
C20_Witness ==
  /\ codec.pc = "decoded_duty"
  /\ codec.x = CENTER_DUTY_CYCLE + 1
  /\ ~codec.back.raised
  /\ FloatPositive(codec.back.value)
  /\ FloatLess(codec.back.value, FloatOfRatio(1, 1000))

\* C21: starting a registered servo through the start operation succeeds and
\* leaves it running in the requested direction: a start_servo(id,
\* direction) call on a registered servo, with the flag clear, returns true
\* with the servo running, at a positive speed for forward and a negative
\* one for backward.
C21_StartRuns ==
  [][\A t \in Threads :
       (Returns(t, "start_servo") /\ InServos(Top(t).id) /\ InServoStates(Top(t).id)
          /\ ~emergency_stop_active) =>
         /\ result'[t].ret = "True"
         /\ Top(t).id \in DOMAIN servo_states'
         /\ servo_states'[Top(t).id].is_running
         /\ (Top(t).speed > 0) <=> (servo_states'[Top(t).id].speed > 0)
    ]_vars

\* C22: stop(id) is set_speed(id, 0.0): same return, same resulting state.
\* Every step of a public stop_servo(id) call is checked:
\*   - its first step calls set_servo_speed with the same id and speed 0.0,
\*     entered at "with self._lock" exactly as a public set_speed(id, 0.0),
\*     and changes nothing itself;
\*   - its last step returns the value the nested call returned and changes
\*     nothing itself;
\*   - the nested call, with the flag set, is rejected by the interlock:
\*     false, nothing changed;
\*   - the nested call's write puts the centre duty cycle on the output, and
\*     when it returns true the servo's state is {0.0, false}.
C22_StopIsSetSpeedZero ==
  [][\A t \in Threads :
       (StepOf(t) /\ Running(t, "stop_servo")) =>
         LET f == Top(t) IN
           /\ (f.proc = "stop_servo" /\ f.pc = "start") =>
                 /\ stack'[t] = <<Frame("set_servo_speed", "lock", f.id, 0),
                                  [f EXCEPT !.pc = "ret"]>>
                 /\ UNCHANGED <<shared, lock>>
           /\ (f.proc = "stop_servo" /\ f.pc = "ret") =>
                 /\ Idle(t)'
                 /\ result'[t].ret = f.rv
                 /\ UNCHANGED <<shared, lock>>
           /\ f.proc = "set_servo_speed" =>
                 /\ f.id = Outer(t).id /\ f.speed = 0
                 /\ (f.pc = "start" /\ emergency_stop_active) =>
                       /\ Len(stack'[t]) = 1 /\ stack'[t][1].rv = "False"
                       /\ UNCHANGED shared
                 /\ (f.pc = "write" /\ Len(stack'[t]) = 2) =>
                       servos'[f.id].value = CENTER_DUTY_CYCLE
                 /\ (Len(stack'[t]) = 1 /\ stack'[t][1].rv = "True") =>
                       /\ f.id \in DOMAIN servo_states'
                       /\ servo_states'[f.id] = ServoState
    ]_vars

\* C22 witness: base was set running at 0.5 by one thread, and stop("base")
\* by the other has returned true with base stopped at the centre duty cycle
C22_Witness ==
  \E t, u \in Threads :
    /\ Returned(t, "stop_servo", "True") /\ result[t].id = "base"
    /\ Returned(u, "set_servo_speed", "True")
    /\ result[u].id = "base" /\ result[u].speed = 5
    /\ "base" \in DOMAIN servos /\ "base" \in DOMAIN servo_states
    /\ servo_states["base"] = ServoState
    /\ servos["base"].value = CENTER_DUTY_CYCLE
    /\ ~emergency_stop_active

\* C23: a successful initialize() leaves exactly the configured ids
\* registered, each with state {0.0, false} and an open output at the centre
\* duty cycle (every previously registered servo having been closed and
\* removed first); with zero servos configured it returns false and the
\* registry is empty.  Checked at the step where a public initialize()
\* returns; the configured ids are those the call read from get_all_servos().
C23_InitializeRegistersConfigured ==
  [][\A t \in Threads :
       Returns(t, "initialize_servos") =>
         /\ result'[t].ret = "True" =>
               /\ DOMAIN servos' = Top(t).acc
               /\ DOMAIN servo_states' = Top(t).acc
               /\ \A id \in DOMAIN servos' : servos'[id] = PWMOutputDevice
               /\ \A id \in DOMAIN servo_states' : servo_states'[id] = ServoState
         /\ (Top(t).pc = "ret" /\ config = << >>) =>
               /\ result'[t].ret = "False"
               /\ servos' = EmptyMap
               /\ servo_states' = EmptyMap
    ]_vars

\* C24: the emergency-stop flag changes only through emergency_stop(), which
\* sets it, and clear_emergency_stop(), which clears it; no step of
\* initialize, set_speed, stop, stop_all, a status read or cleanup changes
\* it (so a re-initialize under a set flag leaves the interlock in force).
C24_FlagFrame ==
  [][/\ (emergency_stop_active' # emergency_stop_active) =>
          \E t \in Threads :
            /\ StepOf(t) /\ ~Idle(t) /\ Len(stack[t]) = 1
            /\ \/ Top(t).proc = "emergency_stop" /\ emergency_stop_active'
               \/ Top(t).proc = "clear_emergency_stop" /\ ~emergency_stop_active'
     /\ \A t \in Threads :
          (StepOf(t) /\ ~Idle(t)
             /\ Outer(t).proc \in {"initialize_servos", "set_servo_speed", "stop_servo",
                                   "stop_all_servos", "get_servo_status",
                                   "get_all_servo_status", "is_emergency_stop_active",
                                   "cleanup"}) =>
            emergency_stop_active' = emergency_stop_active
    ]_vars

\* C24 witness: with servos registered and emergency_stop() under way, a
\* query of the flag has returned true and the flag is still set
C24_Witness ==
  \E t, u \in Threads :
    /\ emergency_stop_active
    /\ DOMAIN servo_states # {}
    /\ Returned(t, "is_emergency_stop_active", "True")
    /\ Running(u, "emergency_stop")

\* thread t is inside code that mutates or iterates the registry maps: past
\* "with self._lock" in an operation that takes it, or in _cleanup_servos
InRegistryCode(t) ==
  /\ ~Idle(t)
  /\ Top(t).pc # "lock"
  /\ Top(t).proc \in {"initialize_servos", "_cleanup_servos", "set_servo_speed",
                      "stop_all_servos"}

\* C25: all mutation of the registry and of the servo states happens while
\* the lock is held: a step that changes either map is taken by the thread
\* holding the lock, and no two threads are at once inside code that mutates
\* or iterates the maps, cleanup()'s release of the outputs included.
C25_MutationUnderLock ==
  [][/\ (servos' # servos \/ servo_states' # servo_states) =>
          \E t \in Threads : StepOf(t) /\ lock = t
     /\ \A t, u \in Threads : (InRegistryCode(t) /\ InRegistryCode(u)) => t = u
    ]_vars

\* C26: if the hardware write in set_speed faults, the call returns false
\* and the recorded state of the servo is exactly as before the call; the
\* other servos and the flag are unchanged.  Checked on the steps of a
\* public set_servo_speed call up to and including the write: the checks
\* before the write change nothing, and a write that ends the call ends it
\* with false, the fault logged, the lock released and nothing changed; a
\* write that succeeds is the first step to change anything.
C26_WriteFaultLeavesState ==
  [][\A t \in Threads :
       (StepOf(t) /\ Running(t, "set_servo_speed") /\ Len(stack[t]) = 1) =>
         LET f == Top(t) IN
           /\ f.pc = "start" => UNCHANGED shared
           /\ (f.pc = "write" /\ Idle(t)') =>
                 /\ result'[t].ret = "False"
                 /\ result'[t].exc \in {"HardwareFault", "DeviceClosed", "KeyError"}
                 /\ lock' = NoThread
                 /\ UNCHANGED shared
           /\ (f.pc = "write" /\ ~Idle(t)') =>
                 /\ Top(t)'.pc = "speed"
                 /\ UNCHANGED <<servo_states, emergency_stop_active>>
    ]_vars

\* C26 witness: base runs at 0.5; set_speed("base", -1.0) has met a
\* faulting write and returned false; base still reports {0.5, running}
\* with its output at 0.0848, and the flag is clear
C26_Witness ==
  \E t \in Threads :
    /\ Returned(t, "set_servo_speed", "False")
    /\ result[t].exc = "HardwareFault"
    /\ result[t].id = "base" /\ result[t].speed = -10
    /\ "base" \in DOMAIN servos /\ "base" \in DOMAIN servo_states
    /\ servo_states["base"] = [speed |-> 5, is_running |-> TRUE]
    /\ servos["base"] = [value |-> 84800, closed |-> FALSE]
    /\ lock = NoThread
    /\ ~emergency_stop_active

\* C27: between public operations, for every registered servo the duty
\* cycle on its output equals speed_to_duty of its recorded speed.
C27_OutputMatchesState ==
  AtRest =>
    \A id \in DOMAIN servos \cap DOMAIN servo_states :
      LET d == speed_to_duty_cycle(servo_states[id].speed)
      IN  ~d.raised /\ servos[id].value = d.duty

\* C27 witness: at rest, base runs in reverse at full speed with its output
\* at the minimum duty cycle and gripper is stopped at the centre
C27_Witness ==
  /\ AtRest
  /\ DOMAIN servos = {"base", "gripper"}
  /\ DOMAIN servo_states = {"base", "gripper"}
  /\ servo_states["base"] = [speed |-> -10, is_running |-> TRUE]
  /\ servos["base"].value = MIN_DUTY_CYCLE
  /\ servo_states["gripper"].speed = 0
  /\ servos["gripper"].value = CENTER_DUTY_CYCLE

\* C28: the lock is never leaked: once a public operation has returned, by
\* whatever path (normal return, early return, handled or escaping
\* exception), the thread that ran it does not hold the lock; with every
\* thread between operations the lock is free.
C28_LockNotLeaked ==
  /\ \A t \in Threads : Idle(t) => lock # t
  /\ (\A t \in Threads : Idle(t)) => lock = NoThread

\* C28 witness: initialize() has returned false through its exception
\* handler, set_speed has returned false early, and the lock is free
C28_Witness ==
  \E t, u \in Threads :
    /\ Returned(t, "initialize_servos", "False") /\ result[t].exc = "HardwareFault"
    /\ Returned(u, "set_servo_speed", "False") /\ result[u].exc = "-"
    /\ lock = NoThread

\* C29: between public operations the output map and the state map have
\* the same key set.
C29_SameKeys == AtRest => DOMAIN servos = DOMAIN servo_states

\* C30: between public operations every constructed output handle is either
\* registered and open, or closed:
\*   - no handle that has been closed is still registered once the
\*     operations have ended, a close that faults part-way included;
\*   - no step drops a handle from the registry, by removing its id or by
\*     registering a new handle under it, unless the handle has been closed.
C30_HandlesOpenOrClosed ==
  [][/\ AtRest' => \A id \in DOMAIN servos' : ~servos'[id].closed
     /\ \A id \in DOMAIN servos :
          (id \notin DOMAIN servos') => servos[id].closed
     /\ \A t \in Threads :
          (StepOf(t) /\ ~Idle(t) /\ Top(t).proc = "initialize_servos"
             /\ Top(t).pc = "loop" /\ servos' # servos) =>
            (Head(Top(t).todo) \in DOMAIN servos => servos[Head(Top(t).todo)].closed)
    ]_vars

====
